---------------------------- MODULE Spec2Model ----------------------------
(***************************************************************************)
(* quattordocbuild/builder.py: the documentation builder.                  *)
(*                                                                         *)
(* build_documentation checks its preconditions, converts every            *)
(* repository, then runs build_site_structure, make_interlinks and         *)
(* write_site on one site_pages dictionary.                                *)
(*                                                                         *)
(* Python strings are sequences of one-character strings, so that in,      *)
(* split, splitext, replace, lower and re.sub are computed character by    *)
(* character.  Dictionaries are functions; the empty dictionary is << >>.  *)
(* Dictionary and set iteration order is arbitrary: every loop over a      *)
(* dictionary or a set picks any key that is still to be visited.          *)
(***************************************************************************)
EXTENDS Integers, Sequences, FiniteSets, TLC

VARIABLES
    pc,              \* the function build_documentation is in, or "exit" / "raise" / "done"
    env,             \* what the checks find: arguments, file system, search path
    repository_map,  \* repository -> [sitesection, targets]
    markdownlist,    \* repository -> (source path -> markdown)
    convTodo,        \* build_documentation: repositories still to convert
    sitepages,       \* section -> (page name -> content)
    repoTodo,        \* build_site_structure: repositories still to visit
    curRepo,         \* build_site_structure: the repository being visited
    srcTodo,         \* build_site_structure: sources of curRepo still to visit
    errors,          \* build_site_structure: sources logged with logger.error
    pages0,          \* make_interlinks: the value of its argument at the call
    subTodo,         \* make_interlinks: sections still to visit
    curSub,          \* make_interlinks: the section being visited
    pageTodo,        \* make_interlinks: pages of curSub still to visit
    processed,       \* make_interlinks: the target pages visited, in order
    wsTodo,          \* write_site: sections still to visit
    wsSub,           \* write_site: the section being visited
    wsPages,         \* write_site: pages of wsSub still to write
    tocSet,          \* write_site: toc[subdir] while it is a set
    toc,             \* write_site: section -> sorted list of page names
    dirs,            \* directories made under location/docs
    files,           \* page files written: <<section, page name>> -> content
    navfile          \* mkdocs.yml: the set of the toc rendered into it, empty before

mainVars == <<env, repository_map, markdownlist, convTodo>>
structVars == <<repoTodo, curRepo, srcTodo, errors>>
linkVars == <<pages0, subTodo, curSub, pageTodo, processed>>
writeVars == <<wsTodo, wsSub, wsPages, tocSet, toc, dirs, files, navfile>>
vars == <<pc, mainVars, sitepages, structVars, linkVars, writeVars>>

None == "None"

\* the backtick character, which a TLA+ string cannot hold
BT == "backtick"

-----------------------------------------------------------------------------
(* Bounds of the inputs.                                                   *)

MaxSources == 2      \* source files per repository (build_site_structure)
MaxPages == 3        \* pages of the site (make_interlinks)
MaxTocPages == 2     \* pages per section (write_site)

-----------------------------------------------------------------------------
(* Python string operations.                                               *)

\* sub in s
In(sub, s) ==
    \E i \in 0..(Len(s) - Len(sub)) : SubSeq(s, i + 1, i + Len(sub)) = sub

\* s.find(sub, pos), 1-based; 0 when there is no occurrence at or after pos
Find(s, sub, pos) ==
    LET hits == {i \in pos..(Len(s) - Len(sub) + 1) :
                    SubSeq(s, i, i + Len(sub) - 1) = sub}
    IN  IF hits = {} THEN 0 ELSE CHOOSE i \in hits : \A j \in hits : i <= j

\* s.split(sep)[-1] for a non-empty sep: what follows the last of the
\* occurrences a left-to-right, non-overlapping scan finds
RECURSIVE SplitTail(_, _, _)
SplitTail(s, sep, pos) ==
    LET i == Find(s, sep, pos)
    IN  IF i = 0 THEN SubSeq(s, pos, Len(s))
                 ELSE SplitTail(s, sep, i + Len(sep))

SplitLast(s, sep) == SplitTail(s, sep, 1)

\* s.rfind(c), 1-based; 0 when c does not occur
RFind(s, c) ==
    LET hits == {i \in 1..Len(s) : s[i] = c}
    IN  IF hits = {} THEN 0 ELSE CHOOSE i \in hits : \A j \in hits : j <= i

\* os.path.splitext(p)[0]: the extension starts at the last dot of the last
\* path component, unless only dots precede it in that component
SplitextRoot(p) ==
    LET sepIndex == RFind(p, "/")
        dotIndex == RFind(p, ".")
    IN  IF dotIndex > sepIndex
           /\ \E k \in (sepIndex + 1)..(dotIndex - 1) : p[k] # "."
        THEN SubSeq(p, 1, dotIndex - 1)
        ELSE p

\* s.replace("/", "::")
RECURSIVE ReplaceSlash(_)
ReplaceSlash(s) ==
    IF s = << >> THEN << >>
    ELSE (IF Head(s) = "/" THEN <<":", ":">> ELSE <<Head(s)>>)
         \o ReplaceSlash(Tail(s))

str_md == <<".", "m", "d">>

-----------------------------------------------------------------------------
(* build_site_structure                                                    *)

\* for target in targets: if target in source and not found: the index of
\* the target that names the page, 0 when no target occurs in source
\* (faulty variant: without `not found' the last target that occurs decides)
MatchTargetLast(targets, source) ==
    LET hits == {k \in 1..Len(targets) : In(targets[k], source)}
    IN  IF hits = {} THEN 0 ELSE CHOOSE k \in hits : \A j \in hits : j <= k

MatchTarget(targets, source) ==
    LET hits == {k \in 1..Len(targets) : In(targets[k], source)}
    IN  IF hits = {} THEN 0 ELSE CHOOSE k \in hits : \A j \in hits : k <= j

\* newname = source.split(target)[-1]
\* newname = os.path.splitext(newname)[0].replace("/", "::") + ".md"
NewName(target, source) ==
    ReplaceSlash(SplitextRoot(SplitLast(source, target))) \o str_md

\* d[key] = value
DictSet(d, key, value) == (key :> value) @@ d


\* the inputs of build_site_structure
Repos == {"core", "grid"}

sec_components == <<"c", "o", "m", "p", "o", "n", "e", "n", "t", "s">>
sec_comps == <<"c", "o", "m", "p", "s">>

t_a == <<"/", "a", "/">>
t_b == <<"/", "b", "/">>
TargetLists == {<<t_a, t_b>>, <<t_b>>}

p_af == <<"/", "a", "/", "f", ".", "p">>
p_abg == <<"/", "a", "/", "b", "/", "g", ".", "p">>
p_cf == <<"/", "c", "/", "f", ".", "p">>
p_aaf == <<"/", "a", "/", "a", "/", "f", ".", "q">>
p_bf == <<"/", "b", "/", "f", ".", "p">>
p_xayah == <<"x", "/", "a", "/", "y", "/", "a", "/", "h", ".", "p">>
Paths == {p_af, p_abg, p_cf, p_aaf, p_bf, p_xayah}

\* the markdown generated for a source: one text per repository and source
Markdown(repo, source) ==
    <<"#", (IF repo = "core" THEN "c" ELSE "g")>> \o source

Descriptors == [sitesection : {sec_components, sec_comps}, targets : TargetLists]

SourceSets == {S \in SUBSET Paths : Cardinality(S) <= MaxSources}

MarkdownLists ==
    {[r \in Repos |-> [p \in S[r] |-> Markdown(r, p)]] : S \in [Repos -> SourceSets]}

\* for repo, markdowns in markdownlist.iteritems():
\*     sitesection = repository_map[repo]['sitesection']
\*     sitepages[sitesection] = {}
bss_repo ==
    /\ pc = "build_site_structure"
    /\ srcTodo = {}
    /\ \E repo \in repoTodo :
          /\ repoTodo' = repoTodo \ {repo}
          /\ curRepo' = repo
          /\ srcTodo' = DOMAIN markdownlist[repo]
          /\ sitepages' = DictSet(sitepages, repository_map[repo].sitesection, << >>)
    /\ UNCHANGED <<pc, mainVars, errors, linkVars, writeVars>>

\* the dictionary after one source of repo has been visited
StoreSource(pages, repo, source) ==
    LET sitesection == repository_map[repo].sitesection
        targets == repository_map[repo].targets
        k == MatchTarget(targets, source)
    IN  IF k = 0 THEN pages
        ELSE DictSet(pages, sitesection,
                     DictSet(pages[sitesection], NewName(targets[k], source),
                             markdownlist[repo][source]))

\* for source, markdown in markdowns.iteritems(): the page is stored under
\* its new name, or logger.error reports that no target was found
bss_source ==
    /\ pc = "build_site_structure"
    /\ \E source \in srcTodo :
          /\ srcTodo' = srcTodo \ {source}
          /\ sitepages' = StoreSource(sitepages, curRepo, source)
          /\ errors' = IF MatchTarget(repository_map[curRepo].targets, source) = 0
                       THEN errors \cup {<<curRepo, source>>}
                       ELSE errors
    /\ UNCHANGED <<pc, mainVars, repoTodo, curRepo, linkVars, writeVars>>

\* return sitepages; build_documentation passes it to make_interlinks
bss_return ==
    /\ pc = "build_site_structure"
    /\ srcTodo = {}
    /\ repoTodo = {}
    /\ pc' = "make_interlinks"
    /\ pages0' = sitepages
    /\ subTodo' = DOMAIN sitepages
    /\ curSub' = None
    /\ pageTodo' = {}
    /\ processed' = << >>
    /\ UNCHANGED <<mainVars, sitepages, structVars, writeVars>>

\* an environment in which every precondition of build_documentation holds
OkEnv ==
    [repository_location |-> TRUE, output_location |-> TRUE,
     source_exists |-> TRUE, output |-> "empty", compile |-> FALSE,
     path_set |-> TRUE, mvn |-> FALSE, pod2markdown |-> TRUE]

IdleLinks ==
    /\ pages0 = << >>
    /\ subTodo = {}
    /\ curSub = None
    /\ pageTodo = {}
    /\ processed = << >>

IdleWrite ==
    /\ wsTodo = {}
    /\ wsSub = None
    /\ wsPages = {}
    /\ tocSet = {}
    /\ toc = << >>
    /\ dirs = {}
    /\ files = << >>
    /\ navfile = {}

IdleStruct ==
    /\ repoTodo = {}
    /\ curRepo = None
    /\ srcTodo = {}
    /\ errors = {}

\* build_site_structure(markdownlist, repository_map) called on its own
InitStruct ==
    /\ pc = "build_site_structure"
    /\ env = OkEnv
    /\ repository_map \in [Repos -> Descriptors]
    /\ markdownlist \in MarkdownLists
    /\ convTodo = {}
    /\ sitepages = << >>
    /\ repoTodo = Repos
    /\ curRepo = None
    /\ srcTodo = {}
    /\ errors = {}
    /\ IdleLinks
    /\ IdleWrite

NextStruct == bss_repo \/ bss_source \/ bss_return

SpecStruct == InitStruct /\ [][NextStruct]_vars

-----------------------------------------------------------------------------
(* make_interlinks and replace_regex_link                                  *)

str_Quattor == <<"Q", "u", "a", "t", "t", "o", "r">>
sec_components_grid ==
    <<"c", "o", "m", "p", "o", "n", "e", "n", "t", "s", "-", "g", "r", "i", "d">>
sec_CCM == <<"C", "C", "M">>
sec_Unittest == <<"U", "n", "i", "t", "t", "e", "s", "t">>
cpans ==
    <<"h", "t", "t", "p", "s", ":", "/", "/", "m", "e", "t", "a", "c", "p", "a",
      "n", ".", "o", "r", "g", "/", "p", "o", "d", "/">>
ns_CCM == <<"E", "D", "G", ":", ":", "W", "P", "4", ":", ":", "C", "C", "M">>
ns_Test == <<"T", "e", "s", "t">>
ns_Component ==
    <<"N", "C", "M", ":", ":", "C", "o", "m", "p", "o", "n", "e", "n", "t">>
str_ncm == <<"n", "c", "m", "-">>

\* A regular expression without operators is the sequence of its characters:
\* "." matches any character but a newline, "\[" "\]" "\(" "\)" are the
\* literal brackets, every other character matches itself.  (The names of
\* the model hold no other special character.)
MatchPat(s, pos, pat) ==
    /\ pos + Len(pat) - 1 <= Len(s)
    /\ \A k \in 1..Len(pat) :
          IF pat[k] = "." THEN s[pos + k - 1] # "\n"
                          ELSE s[pos + k - 1] = pat[k]

\* pat([,. $]) matches at pos
MatchBody(s, pos, pat) ==
    /\ MatchPat(s, pos, pat)
    /\ pos + Len(pat) <= Len(s)
    /\ s[pos + Len(pat)] \in {",", ".", " ", "$"}

\* ( |^|\n)pat([,. $]) at pos: the length of group 1, or -1 for no match;
\* the alternatives are tried in the order written
MatchGroup1(s, pos, pat) ==
    IF s[pos] = " " /\ MatchBody(s, pos + 1, pat) THEN 1
    ELSE IF pos = 1 /\ MatchBody(s, pos, pat) THEN 0
    ELSE IF s[pos] = "\n" /\ MatchBody(s, pos + 1, pat) THEN 1
    ELSE -1

\* (faulty variant: re.sub with count=1, only the first match is replaced)
RECURSIVE ReSubFirst(_, _, _, _)
ReSubFirst(s, pat, repl, pos) ==
    IF pos > Len(s) THEN << >>
    ELSE LET g == MatchGroup1(s, pos, pat)
         IN  IF g = -1
             THEN <<s[pos]>> \o ReSubFirst(s, pat, repl, pos + 1)
             ELSE SubSeq(s, pos, pos + g - 1) \o repl
                  \o SubSeq(s, pos + g + Len(pat), Len(s))

\* re.sub(r'( |^|\n)pat([,. $])', "\g<1>repl\g<2>", s) from pos on: the
\* matches are found left to right and do not overlap
RECURSIVE ReSub(_, _, _, _)
ReSub(s, pat, repl, pos) ==
    IF pos > Len(s) THEN << >>
    ELSE LET g == MatchGroup1(s, pos, pat)
         IN  IF g = -1
             THEN <<s[pos]>> \o ReSub(s, pat, repl, pos + 1)
             ELSE SubSeq(s, pos, pos + g - 1) \o repl
                  \o <<s[pos + g + Len(pat)]>>
                  \o ReSub(s, pat, repl, pos + g + Len(pat) + 1)

\* (basename not in page or basename == "Quattor") and basename in content
\* (faulty variant: without the test on the page name)
EligibleAnyPage(basename, page, content) == In(basename, content)

Eligible(basename, page, content) ==
    (~In(basename, page) \/ basename = str_Quattor) /\ In(basename, content)

\* "[%s](%s)" % (basename, link)
LinkText(basename, link) == <<"[">> \o basename \o <<"]", "(">> \o link \o <<")">>

\* replace_regex_link(pages, regex, basename, link)
replace_regex_link(pages, regex, basename, link) ==
    [subdir \in DOMAIN pages |->
        [page \in DOMAIN pages[subdir] |->
            IF Eligible(basename, page, pages[subdir][page])
            THEN ReSub(pages[subdir][page], regex, LinkText(basename, link), 1)
            ELSE pages[subdir][page]]]

\* "\[{2}::{0}\]\({1}{2}::{0}\)".format(basename, cpans, prefix)
CpanLink(basename, prefix) ==
    <<"[">> \o prefix \o <<":", ":">> \o basename \o <<"]", "(">>
    \o cpans \o prefix \o <<":", ":">> \o basename \o <<")">>

\* regxs of make_interlinks
\* (faulty variant: the ncm- patterns are added for every section)
RegxsNcmEverywhere(subdir, basename) ==
    <<  <<BT>> \o basename \o <<BT>>,
        <<BT>> \o subdir \o <<":", ":">> \o basename \o <<BT>>,
        <<BT>> \o str_ncm \o basename \o <<BT>>,
        str_ncm \o basename >>

Regxs(subdir, basename) ==
    <<  <<BT>> \o basename \o <<BT>>,
        <<BT>> \o subdir \o <<":", ":">> \o basename \o <<BT>> >>
    \o (IF subdir = sec_CCM THEN << CpanLink(basename, ns_CCM) >> ELSE << >>)
    \o (IF subdir = sec_Unittest THEN << CpanLink(basename, ns_Test) >> ELSE << >>)
    \o (IF subdir \in {sec_components, sec_components_grid}
        THEN << CpanLink(basename, ns_Component),
                <<BT>> \o str_ncm \o basename \o <<BT>>,
                str_ncm \o basename >>
        ELSE << >>)

\* link = '../%s/%s' % (subdir, page)
Link(subdir, page) == <<".", ".", "/">> \o subdir \o <<"/">> \o page

\* for regex in regxs: newpages = replace_regex_link(newpages, regex, basename, link)
RECURSIVE ApplyRegxs(_, _, _, _)
ApplyRegxs(pages, regxs, basename, link) ==
    IF regxs = << >> THEN pages
    ELSE ApplyRegxs(replace_regex_link(pages, Head(regxs), basename, link),
                    Tail(regxs), basename, link)

\* the body of the loops of make_interlinks for one target page
\* (faulty variant: every target is applied to the pages as they were passed in)
InterlinkFromInput(pages, subdir, page) ==
    LET basename == SplitextRoot(page)
        fresh == ApplyRegxs(pages0, Regxs(subdir, basename), basename,
                            Link(subdir, page))
    IN  [s \in DOMAIN pages |-> [n \in DOMAIN pages[s] |->
            IF fresh[s][n] # pages0[s][n] THEN fresh[s][n] ELSE pages[s][n]]]

Interlink(pages, subdir, page) ==
    LET basename == SplitextRoot(page)
    IN  ApplyRegxs(pages, Regxs(subdir, basename), basename, Link(subdir, page))

\* for subdir in pages:
mi_subdir ==
    /\ pc = "make_interlinks"
    /\ pageTodo = {}
    /\ \E subdir \in subTodo :
          /\ subTodo' = subTodo \ {subdir}
          /\ curSub' = subdir
          /\ pageTodo' = DOMAIN sitepages[subdir]
    /\ UNCHANGED <<pc, mainVars, sitepages, structVars, pages0, processed, writeVars>>

\* for page in pages[subdir]: every pattern of the page is applied to all pages
mi_page ==
    /\ pc = "make_interlinks"
    /\ \E page \in pageTodo :
          /\ pageTodo' = pageTodo \ {page}
          /\ sitepages' = Interlink(sitepages, curSub, page)
          /\ processed' = Append(processed, <<curSub, page>>)
    /\ UNCHANGED <<pc, mainVars, structVars, pages0, subTodo, curSub, writeVars>>

\* return newpages; build_documentation passes it to write_site
mi_return ==
    /\ pc = "make_interlinks"
    /\ pageTodo = {}
    /\ subTodo = {}
    /\ pc' = "write_site"
    /\ wsTodo' = DOMAIN sitepages
    /\ UNCHANGED <<mainVars, sitepages, structVars, linkVars,
                   wsSub, wsPages, tocSet, toc, dirs, files, navfile>>

\* the inputs of make_interlinks
n_fm == <<"f", "m", ".", "m", "d">>
n_ic == <<"i", "c", ".", "m", "d">>
n_Quattor == <<"Q", "u", "a", "t", "t", "o", "r", ".", "m", "d">>

\* `fm`, `fm` `fm`.
k_three ==
    <<BT, "f", "m", BT, ",", " ", BT, "f", "m", BT, " ", BT, "f", "m", BT, ".">>
\* `ncm-fm`. ncm-fm$
k_ncm ==
    <<BT, "n", "c", "m", "-", "f", "m", BT, ".", " ",
      "n", "c", "m", "-", "f", "m", "$">>
\* `Quattor`.\n`fm` 
k_quattor ==
    <<BT, "Q", "u", "a", "t", "t", "o", "r", BT, ".", "\n", BT, "f", "m", BT, " ">>
\* `ic`. `comps::fm`,
k_ic ==
    <<BT, "i", "c", BT, ".", " ",
      BT, "c", "o", "m", "p", "s", ":", ":", "f", "m", BT, ",">>

Contents == {k_three, k_ncm, k_quattor, k_ic}
Slots ==
    ({sec_components, sec_comps} \X {n_fm, n_ic}) \cup {<<sec_comps, n_Quattor>>}

SitePagesOf(X, c) ==
    [subdir \in {x[1] : x \in X} |->
        [page \in {x[2] : x \in {y \in X : y[1] = subdir}} |-> c[<<subdir, page>>]]]

LinkInputs ==
    UNION {{SitePagesOf(X, c) : c \in [X -> Contents]} :
              X \in {Y \in SUBSET Slots : Cardinality(Y) \in 1..MaxPages}}

\* make_interlinks(pages) called on its own
InitLinks ==
    /\ pc = "make_interlinks"
    /\ env = OkEnv
    /\ repository_map = << >>
    /\ markdownlist = << >>
    /\ convTodo = {}
    /\ sitepages \in LinkInputs
    /\ IdleStruct
    /\ pages0 = sitepages
    /\ subTodo = DOMAIN sitepages
    /\ curSub = None
    /\ pageTodo = {}
    /\ processed = << >>
    /\ IdleWrite

NextLinks == mi_subdir \/ mi_page \/ mi_return

SpecLinks == InitLinks /\ [][NextLinks]_vars

-----------------------------------------------------------------------------
(* write_site and write_toc                                                *)

\* the printable ASCII characters in code order, from 32 (space) on
Ascii ==
    <<" ", "!", "\"", "#", "$", "%", "&", "'", "(", ")", "*", "+", ",", "-", ".", "/",
      "0", "1", "2", "3", "4", "5", "6", "7", "8", "9", ":", ";", "<", "=", ">", "?",
      "@", "A", "B", "C", "D", "E", "F", "G", "H", "I", "J", "K", "L", "M", "N", "O",
      "P", "Q", "R", "S", "T", "U", "V", "W", "X", "Y", "Z", "[", "\\", "]", "^", "_",
      BT, "a", "b", "c", "d", "e", "f", "g", "h", "i", "j", "k", "l", "m", "n", "o",
      "p", "q", "r", "s", "t", "u", "v", "w", "x", "y", "z", "{", "|", "}", "~">>

\* ord(c)
Ord(c) == 31 + (CHOOSE k \in 1..Len(Ascii) : Ascii[k] = c)

\* s.lower()
Lower(s) ==
    [i \in 1..Len(s) |->
        IF Ord(s[i]) >= 65 /\ Ord(s[i]) <= 90 THEN Ascii[Ord(s[i]) + 1] ELSE s[i]]

\* a < b for strings: by the first character that differs, a proper prefix first
StrLess(a, b) ==
    \E k \in 1..Len(b) :
        /\ k <= Len(a) + 1
        /\ SubSeq(a, 1, k - 1) = SubSeq(b, 1, k - 1)
        /\ (k = Len(a) + 1 \/ Ord(a[k]) < Ord(b[k]))

\* key=lambda s: s.lower()
\* (faulty variant: the names are compared as they are)
SortKeyCaseSensitive(s) == s

SortKey(s) == Lower(s)

\* sorted(seq, key=SortKey): stable, equal keys keep the order of seq
RECURSIVE Sorted(_)
Sorted(seq) ==
    IF seq = << >> THEN << >>
    ELSE LET x == seq[Len(seq)]
             front == Sorted(SubSeq(seq, 1, Len(seq) - 1))
             after == {k \in 1..Len(front) : StrLess(SortKey(x), SortKey(front[k]))}
             at == IF after = {} THEN Len(front) + 1
                   ELSE CHOOSE k \in after : \A j \in after : k <= j
         IN  SubSeq(front, 1, at - 1) \o <<x>> \o SubSeq(front, at, Len(front))

\* the orders in which a set can be iterated
Orders(S) ==
    {f \in [1..Cardinality(S) -> S] : \A i, j \in 1..Cardinality(S) : f[i] = f[j] => i = j}

\* for subdir, pages in sitepages.iteritems(): toc[subdir] = set();
\* os.makedirs(fullsubdir) if it does not exist
ws_subdir ==
    /\ pc = "write_site"
    /\ wsSub = None
    /\ \E subdir \in wsTodo :
          /\ wsTodo' = wsTodo \ {subdir}
          /\ wsSub' = subdir
          /\ wsPages' = DOMAIN sitepages[subdir]
          /\ tocSet' = {}
          /\ dirs' = dirs \cup {subdir}
    /\ UNCHANGED <<pc, mainVars, sitepages, structVars, linkVars, toc, files, navfile>>

\* for pagename, content in pages.iteritems(): the file is written and
\* toc[subdir].add(pagename)
ws_page ==
    /\ pc = "write_site"
    /\ wsSub # None
    /\ \E pagename \in wsPages :
          /\ wsPages' = wsPages \ {pagename}
          /\ files' = DictSet(files, <<wsSub, pagename>>, sitepages[wsSub][pagename])
          /\ tocSet' = tocSet \cup {pagename}
    /\ UNCHANGED <<pc, mainVars, sitepages, structVars, linkVars,
                   wsTodo, wsSub, toc, dirs, navfile>>

\* toc[subdir] = sorted(toc[subdir], key=lambda s: s.lower())
ws_sort ==
    /\ pc = "write_site"
    /\ wsSub # None
    /\ wsPages = {}
    /\ \E order \in Orders(tocSet) : toc' = DictSet(toc, wsSub, Sorted(order))
    /\ wsSub' = None
    /\ tocSet' = {}
    /\ UNCHANGED <<pc, mainVars, sitepages, structVars, linkVars,
                   wsTodo, wsPages, dirs, files, navfile>>

\* write_toc(toc, location)
ws_write_toc ==
    /\ pc = "write_site"
    /\ wsSub = None
    /\ wsTodo = {}
    /\ pc' = "write_toc"
    /\ UNCHANGED <<mainVars, sitepages, structVars, linkVars, writeVars>>

\* write_toc: the template renders the toc and mkdocs.yml is written, or the
\* template fails and TemplateException is raised again
write_toc ==
    /\ pc = "write_toc"
    /\ \/ /\ navfile' = {toc}
          /\ pc' = "done"
       \/ /\ navfile' = navfile
          /\ pc' = "raise"
    /\ UNCHANGED <<mainVars, sitepages, structVars, linkVars,
                   wsTodo, wsSub, wsPages, tocSet, toc, dirs, files>>

\* the inputs of write_site
n_a == <<"a", ".", "m", "d">>
n_A == <<"A", ".", "m", "d">>
n_b == <<"b", ".", "m", "d">>
n_B == <<"B", ".", "m", "d">>
TocNames == {n_a, n_A, n_b, n_B}

TocSections ==
    {[n \in N |-> <<"#">> \o n] : N \in {M \in SUBSET TocNames : Cardinality(M) <= MaxTocPages}}

WriteInputs ==
    UNION {[D -> TocSections] : D \in (SUBSET {sec_CCM, sec_components}) \ {{}}}

\* write_site(sitepages, location, "docs") called on its own
InitWrite ==
    /\ pc = "write_site"
    /\ env = OkEnv
    /\ repository_map = << >>
    /\ markdownlist = << >>
    /\ convTodo = {}
    /\ sitepages \in WriteInputs
    /\ IdleStruct
    /\ IdleLinks
    /\ wsTodo = DOMAIN sitepages
    /\ wsSub = None
    /\ wsPages = {}
    /\ tocSet = {}
    /\ toc = << >>
    /\ dirs = {}
    /\ files = << >>
    /\ navfile = {}

NextWrite == ws_subdir \/ ws_page \/ ws_sort \/ ws_write_toc \/ write_toc

SpecWrite == InitWrite /\ [][NextWrite]_vars

-----------------------------------------------------------------------------
(* build_documentation, check_input, check_commands, which                 *)

\* which(command): os.getenv("PATH").split(':') fails when PATH is not set
Which(e, command) ==
    IF ~e.path_set THEN "raise" ELSE IF e[command] THEN "True" ELSE "False"

\* check_input(sourceloc, outputloc); os.listdir raises OSError when the
\* output location is not a directory
\* (faulty variant: the output directory is not required to be empty)
CheckInputAnyDirectory(e) ==
    IF ~e.repository_location THEN "False"
    ELSE IF ~e.output_location THEN "False"
    ELSE IF ~e.source_exists THEN "False"
    ELSE IF e.output = "missing" THEN "False"
    ELSE "True"

CheckInput(e) ==
    IF ~e.repository_location THEN "False"
    ELSE IF ~e.output_location THEN "False"
    ELSE IF ~e.source_exists THEN "False"
    ELSE IF e.output = "missing" THEN "False"
    ELSE IF e.output = "file" THEN "raise"
    ELSE IF e.output = "nonempty" THEN "False"
    ELSE "True"

\* check_commands(runmaven)
CheckCommands(e) ==
    IF e.compile /\ Which(e, "mvn") # "True" THEN Which(e, "mvn")
    ELSE Which(e, "pod2markdown")

\* where build_documentation goes after a check: on, sys.exit(1), or the
\* exception leaves it
After(result, next) ==
    IF result = "True" THEN next ELSE IF result = "False" THEN "exit" ELSE "raise"

\* if not check_input(repository_location, output_location): sys.exit(1)
check_input ==
    /\ pc = "check_input"
    /\ pc' = After(CheckInput(env), "check_commands")
    /\ UNCHANGED <<mainVars, sitepages, structVars, linkVars, writeVars>>

\* if not check_commands(compile): sys.exit(1)
check_commands ==
    /\ pc = "check_commands"
    /\ pc' = After(CheckCommands(env), "build_repository_map")
    /\ UNCHANGED <<mainVars, sitepages, structVars, linkVars, writeVars>>

\* the repository maps the configuration can yield
MainRepoMaps ==
    { << >>,
      [r \in {"core"} |-> [sitesection |-> sec_components, targets |-> <<t_a, t_b>>]],
      [r \in Repos |-> [sitesection |-> IF r = "core" THEN sec_components ELSE sec_comps,
                        targets |-> <<t_a, t_b>>]] }

\* the source files a repository can hold
MainSources == {{}, {p_af}, {p_abg, p_cf}}

\* repository_map = build_repository_map(repository_location)
\* if not repository_map: sys.exit(1)
build_repository_map ==
    /\ pc = "build_repository_map"
    /\ \E map \in MainRepoMaps :
          /\ repository_map' = map
          /\ convTodo' = DOMAIN map
          /\ pc' = IF DOMAIN map = {} THEN "exit" ELSE "convert"
    /\ UNCHANGED <<env, markdownlist, sitepages, structVars, linkVars, writeVars>>

\* for repository in repository_map.keys(): get_source_files,
\* generate_markdown, cleanup_content; markdownlist[repository] = markdown
convert ==
    /\ pc = "convert"
    /\ \E repository \in convTodo : \E sources \in MainSources :
          /\ convTodo' = convTodo \ {repository}
          /\ markdownlist' = DictSet(markdownlist, repository,
                                     [p \in sources |-> Markdown(repository, p)])
    /\ UNCHANGED <<pc, env, repository_map, sitepages, structVars, linkVars, writeVars>>

\* site_pages = build_site_structure(markdownlist, repository_map)
call_build_site_structure ==
    /\ pc = "convert"
    /\ convTodo = {}
    /\ pc' = "build_site_structure"
    /\ sitepages' = << >>
    /\ repoTodo' = DOMAIN markdownlist
    /\ UNCHANGED <<mainVars, curRepo, srcTodo, errors, linkVars, writeVars>>

Envs ==
    [repository_location : BOOLEAN, output_location : BOOLEAN,
     source_exists : BOOLEAN, output : {"missing", "file", "empty", "nonempty"},
     compile : BOOLEAN, path_set : BOOLEAN, mvn : BOOLEAN, pod2markdown : BOOLEAN]

\* build_documentation(repository_location, cleanup_options, compile, output_location)
Init ==
    /\ pc = "check_input"
    /\ env \in Envs
    /\ repository_map = << >>
    /\ markdownlist = << >>
    /\ convTodo = {}
    /\ sitepages = << >>
    /\ IdleStruct
    /\ IdleLinks
    /\ wsTodo = {}
    /\ wsSub = None
    /\ wsPages = {}
    /\ tocSet = {}
    /\ toc = << >>
    /\ dirs = {}
    /\ files = << >>
    /\ navfile = {}

Next ==
    \/ check_input
    \/ check_commands
    \/ build_repository_map
    \/ convert
    \/ call_build_site_structure
    \/ NextStruct
    \/ NextLinks
    \/ NextWrite

Spec == Init /\ [][Next]_vars

-----------------------------------------------------------------------------
(* Claims about build_site_structure, checked under SpecStruct.            *)

name_bg == <<"b", ":", ":", "g", ".", "m", "d">>

\* whether a marker of repo's targets list is a substring of source
Matches(repo, source) ==
    \E k \in 1..Len(repository_map[repo].targets) :
        In(repository_map[repo].targets[k], source)

\* the first marker, in targets-list order, that occurs in source
FirstMarker(repo, source) ==
    LET targets == repository_map[repo].targets
    IN  targets[CHOOSE k \in 1..Len(targets) :
                    /\ In(targets[k], source)
                    /\ \A j \in 1..(k - 1) : ~In(targets[j], source)]

\* a suffix with its extension removed, '/' replaced by '::', '.md' appended
Canonical(suffix) == ReplaceSlash(SplitextRoot(suffix)) \o str_md

\* the names "the suffix of source after marker" allows: one per occurrence
NamesAfter(marker, source) ==
    {Canonical(SubSeq(source, i + Len(marker), Len(source))) :
        i \in {j \in 1..(Len(source) - Len(marker) + 1) :
                  SubSeq(source, j, j + Len(marker) - 1) = marker}}

\* the name build_site_structure gives the page of a matching source
PageName(repo, source) ==
    NewName(repository_map[repo].targets[
                MatchTarget(repository_map[repo].targets, source)], source)

\* C1: the step that visits a source p of repository R in which a marker of
\* R occurs stores the page in section R.sitesection, under the name made
\* from the suffix of p after the first marker in targets-list order that
\* occurs in p (extension removed, '/' replaced by '::', '.md' appended),
\* with the page's markdown as content.
C1_StoredUnderFirstMarker ==
    [][\A source \in srcTodo :
          (/\ pc = "build_site_structure"
           /\ curRepo' = curRepo
           /\ srcTodo' = srcTodo \ {source}
           /\ Matches(curRepo, source))
          => LET sec == repository_map[curRepo].sitesection
             IN  /\ sec \in DOMAIN sitepages'
                 /\ \E name \in NamesAfter(FirstMarker(curRepo, source), source) :
                       /\ name \in DOMAIN sitepages'[sec]
                       /\ sitepages'[sec][name] = markdownlist[curRepo][source]
                 /\ \A name \in DOMAIN sitepages'[sec] :
                       name \in DOMAIN sitepages[sec]
                       \/ name \in NamesAfter(FirstMarker(curRepo, source), source)
      ]_vars

\* C1 witness: /a/b/g.p, in which both markers of <</a/, /b/>> occur, has
\* been stored as b::g.md, the name the first marker gives.
C1_Witness ==
    /\ pc = "build_site_structure"
    /\ curRepo \in Repos
    /\ repository_map[curRepo].targets = <<t_a, t_b>>
    /\ p_abg \in DOMAIN markdownlist[curRepo]
    /\ p_abg \notin srcTodo
    /\ name_bg \in DOMAIN sitepages[repository_map[curRepo].sitesection]
    /\ sitepages[repository_map[curRepo].sitesection][name_bg]
          = markdownlist[curRepo][p_abg]

\* C2: when build_site_structure has returned, every source that contains
\* no marker of its repository was reported, no entry of the result comes
\* from it, and every page whose source does match is present.
C2_UnmatchedSkippedOthersKept ==
    pc = "make_interlinks" =>
        \A r \in Repos : \A q \in DOMAIN markdownlist[r] :
            ~Matches(r, q) =>
                /\ <<r, q>> \in errors
                /\ \A sec \in DOMAIN sitepages : \A name \in DOMAIN sitepages[sec] :
                      \E r2 \in Repos : \E p \in DOMAIN markdownlist[r2] :
                          /\ Matches(r2, p)
                          /\ repository_map[r2].sitesection = sec
                          /\ PageName(r2, p) = name
                /\ \A r2 \in Repos : \A p \in DOMAIN markdownlist[r2] :
                      Matches(r2, p) =>
                          /\ repository_map[r2].sitesection \in DOMAIN sitepages
                          /\ PageName(r2, p)
                                \in DOMAIN sitepages[repository_map[r2].sitesection]

\* C9: when build_site_structure has returned, the section of every
\* repository holds the canonical name of every matching page of that
\* repository, with that page's content or the content of another page of
\* the same section and name.
C9_EveryMatchedPageKept ==
    pc = "make_interlinks" =>
        \A r \in Repos : \A p \in DOMAIN markdownlist[r] :
            Matches(r, p) =>
                LET sec == repository_map[r].sitesection
                IN  /\ sec \in DOMAIN sitepages
                    /\ PageName(r, p) \in DOMAIN sitepages[sec]
                    /\ \E r2 \in Repos : \E p2 \in DOMAIN markdownlist[r2] :
                          /\ Matches(r2, p2)
                          /\ repository_map[r2].sitesection = sec
                          /\ PageName(r2, p2) = PageName(r, p)
                          /\ sitepages[sec][PageName(r, p)] = markdownlist[r2][p2]

-----------------------------------------------------------------------------
(* Claims about make_interlinks, checked under SpecLinks.                  *)

\* text occurs in c at i, preceded by the start of c, a space or a newline
\* and followed by one of , . space $
ValidOcc(c, text, i) ==
    /\ i >= 1
    /\ i + Len(text) <= Len(c)
    /\ SubSeq(c, i, i + Len(text) - 1) = text
    /\ (i = 1 \/ c[i - 1] \in {" ", "\n"})
    /\ c[i + Len(text)] \in {",", ".", " ", "$"}

\* the character before the occurrence at i is the character that follows
\* another occurrence of text
Shadowed(c, text, i) == ValidOcc(c, text, i - 1 - Len(text))

ValidOccs(c, text) == {i \in 1..Len(c) : ValidOcc(c, text, i)}
IsolatedOccs(c, text) == {i \in ValidOccs(c, text) : ~Shadowed(c, text, i)}

\* the places of c where text occurs
Occs(c, text) ==
    {j \in 1..(Len(c) - Len(text) + 1) : SubSeq(c, j, j + Len(text) - 1) = text}

\* c2 holds link where c held the occurrence at i of text: between the
\* character that preceded and the character that followed the occurrence
ReplacedAt(c, c2, text, link, i) ==
    \E j \in Occs(c2, link) :
        /\ j >= i
        /\ IF i = 1 THEN j = 1 ELSE j > 1 /\ c2[j - 1] = c[i - 1]
        /\ j + Len(link) <= Len(c2)
        /\ c2[j + Len(link)] = c[i + Len(text)]

\* every occurrence in occs of text in c is a link in c2
AllReplaced(c, c2, text, link, occs) ==
    /\ \A i \in occs : ReplacedAt(c, c2, text, link, i)
    /\ Cardinality(Occs(c2, link)) >= Cardinality(Occs(c, link)) + Cardinality(occs)

Backticked(text) == <<BT>> \o text \o <<BT>>
Basename(page) == SplitextRoot(page)
\* [B](../S/N)
LinkTo(subdir, page) == LinkText(Basename(page), Link(subdir, page))

\* the pages of a dictionary, as <<section, page name>>
PagesOf(pages) == UNION {{<<s, n>> : n \in DOMAIN pages[s]} : s \in DOMAIN pages}

\* the step of make_interlinks that visits target page t
StepOf(t) == pc = "make_interlinks" /\ processed' = Append(processed, t)

\* C3: a rewrite step for a target page whose basename B is not Quattor
\* leaves every page whose name contains B as it is; and a dictionary in
\* which a page contains the basename of a page only if its own name
\* contains it too is returned unchanged.
C3_NoSelfLink ==
    /\ [][\A t \in PagesOf(sitepages) :
              (StepOf(t) /\ Basename(t[2]) # str_Quattor) =>
                  \A x \in PagesOf(sitepages) :
                      In(Basename(t[2]), x[2]) =>
                          sitepages'[x[1]][x[2]] = sitepages[x[1]][x[2]]]_vars
    /\ [](pc = "write_site" =>
            ((\A t \in PagesOf(pages0) : \A x \in PagesOf(pages0) :
                  In(Basename(t[2]), pages0[x[1]][x[2]]) =>
                      In(Basename(t[2]), x[2]) /\ Basename(t[2]) # str_Quattor)
             => sitepages = pages0))

\* C3 witness: fm.md, whose content refers to `fm`, has been visited as a
\* target with another page present, and its content is what it was.
C3_Witness ==
    /\ pc = "make_interlinks"
    /\ \E s \in DOMAIN sitepages :
          /\ n_fm \in DOMAIN sitepages[s]
          /\ \E k \in 1..Len(processed) : processed[k] = <<s, n_fm>>
          /\ sitepages[s][n_fm] = k_three
          /\ pages0[s][n_fm] = k_three
    /\ Cardinality(PagesOf(sitepages)) >= 2

\* C4 as stated: the step for target T (section S, name N, basename B)
\* replaces, in every page whose name does not contain B, every occurrence
\* of `B` that is preceded by the start, a space or a newline and followed
\* by one of , . space $ by [B](../S/N), keeping both characters.
C4_EveryOccurrenceLinked ==
    [][\A t \in PagesOf(sitepages) :
          StepOf(t) =>
              \A x \in PagesOf(sitepages) :
                  ~In(Basename(t[2]), x[2]) =>
                      AllReplaced(sitepages[x[1]][x[2]], sitepages'[x[1]][x[2]],
                                  Backticked(Basename(t[2])), LinkTo(t[1], t[2]),
                                  ValidOccs(sitepages[x[1]][x[2]],
                                            Backticked(Basename(t[2]))))]_vars

\* C4 amended: the same for every such occurrence whose preceding character
\* is not the character that follows another such occurrence.
C4_IsolatedOccurrencesLinked ==
    [][\A t \in PagesOf(sitepages) :
          StepOf(t) =>
              \A x \in PagesOf(sitepages) :
                  ~In(Basename(t[2]), x[2]) =>
                      AllReplaced(sitepages[x[1]][x[2]], sitepages'[x[1]][x[2]],
                                  Backticked(Basename(t[2])), LinkTo(t[1], t[2]),
                                  IsolatedOccs(sitepages[x[1]][x[2]],
                                               Backticked(Basename(t[2]))))]_vars

\* [fm](../comps/fm.md), [fm](../comps/fm.md) `fm`.
k_three_linked ==
    LinkTo(sec_comps, n_fm) \o <<",", " ">> \o LinkTo(sec_comps, n_fm)
    \o <<" ", BT, "f", "m", BT, ".">>

\* C4 witness: ic.md held `fm`, `fm` `fm`. and target comps/fm.md has been
\* visited: the first two references are links, the third is not.
C4_Witness ==
    /\ \E k \in 1..Len(processed) : processed[k] = <<sec_comps, n_fm>>
    /\ \E s \in DOMAIN sitepages :
          /\ n_ic \in DOMAIN sitepages[s]
          /\ pages0[s][n_ic] = k_three
          /\ sitepages[s][n_ic] = k_three_linked

\* C5: the step for a target T (basename B) of section components or
\* components-grid replaces, in every page whose name does not contain B,
\* the references `ncm-B` and ncm-B by the link [B](../S/N) that `B` gets;
\* the step for a target of any other section leaves every ncm-B as it is.
C5_NcmPrefix ==
    [][\A t \in PagesOf(sitepages) :
          StepOf(t) =>
              \A x \in PagesOf(sitepages) :
                  LET B == Basename(t[2])
                      c == sitepages[x[1]][x[2]]
                      c2 == sitepages'[x[1]][x[2]]
                  IN  IF t[1] \in {sec_components, sec_components_grid}
                      THEN ~In(B, x[2]) =>
                              LET ticked == IsolatedOccs(c, Backticked(str_ncm \o B))
                                  bare == IsolatedOccs(c, str_ncm \o B)
                                  link == LinkTo(t[1], t[2])
                              IN  /\ \A i \in ticked :
                                        ReplacedAt(c, c2, Backticked(str_ncm \o B), link, i)
                                  /\ \A i \in bare :
                                        ReplacedAt(c, c2, str_ncm \o B, link, i)
                                  /\ Cardinality(Occs(c2, link))
                                        >= Cardinality(Occs(c, link))
                                           + Cardinality(ticked) + Cardinality(bare)
                      ELSE Cardinality(Occs(c2, str_ncm \o B))
                              = Cardinality(Occs(c, str_ncm \o B))]_vars

\* `ncm-fm`. ncm-fm$ with both references linked to components/fm.md
k_ncm_linked ==
    LinkTo(sec_components, n_fm) \o <<".", " ">> \o LinkTo(sec_components, n_fm)
    \o <<"$">>

\* C5 witness: ic.md held `ncm-fm`. ncm-fm$ and both references are now the
\* link to components/fm.md; another page that held the same text while only
\* a target of section comps was visited would be unchanged.
C5_Witness ==
    /\ \E k \in 1..Len(processed) : processed[k] = <<sec_components, n_fm>>
    /\ \E s \in DOMAIN sitepages :
          /\ n_ic \in DOMAIN sitepages[s]
          /\ pages0[s][n_ic] = k_ncm
          /\ sitepages[s][n_ic] = k_ncm_linked

\* the pairs of visited targets of different sections with the same page
\* name, the first of the pair visited first
Collisions ==
    {ij \in (1..Len(processed)) \X (1..Len(processed)) :
        /\ ij[1] < ij[2]
        /\ processed[ij[1]][2] = processed[ij[2]][2]
        /\ processed[ij[1]][1] # processed[ij[2]][1]}

\* the references `B` of the input of every third page are links to target t
CollisionLinksTo(t) ==
    \A x \in PagesOf(pages0) :
        ~In(Basename(t[2]), x[2]) =>
            AllReplaced(pages0[x[1]][x[2]], sitepages[x[1]][x[2]],
                        Backticked(Basename(t[2])), LinkTo(t[1], t[2]),
                        IsolatedOccs(pages0[x[1]][x[2]], Backticked(Basename(t[2]))))

\* C8 as stated: when two target pages of different sections have the same
\* basename, the references to it in a third page end as links to the
\* target visited last.
C8_LastRewriteWins ==
    pc = "write_site" =>
        \A ij \in Collisions : CollisionLinksTo(processed[ij[2]])

\* C8 amended: they end as links to the target visited first; the later
\* target finds no reference left to rewrite.
C8_FirstRewriteWins ==
    pc = "write_site" =>
        \A ij \in Collisions : CollisionLinksTo(processed[ij[1]])

\* [fm](../components/fm.md), [fm](../components/fm.md) [fm](../comps/fm.md).
k_three_components ==
    LinkTo(sec_components, n_fm) \o <<",", " ">> \o LinkTo(sec_components, n_fm)
    \o <<" ">> \o LinkTo(sec_comps, n_fm) \o <<".">>

\* C8 witness: components/fm.md was visited before comps/fm.md, and in
\* ic.md, which held `fm`, `fm` `fm`., the two references the first target
\* rewrote link to components/fm.md; only the third, which the first target
\* had left, links to comps/fm.md.
C8_Witness ==
    /\ pc = "write_site"
    /\ \E ij \in Collisions :
          /\ processed[ij[1]] = <<sec_components, n_fm>>
          /\ processed[ij[2]] = <<sec_comps, n_fm>>
    /\ \E s \in DOMAIN sitepages :
          /\ n_ic \in DOMAIN sitepages[s]
          /\ pages0[s][n_ic] = k_three
          /\ sitepages[s][n_ic] = k_three_components

\* the sections and the page names of each section are those of the input
SameKeys ==
    /\ DOMAIN sitepages = DOMAIN pages0
    /\ \A s \in DOMAIN pages0 : DOMAIN sitepages[s] = DOMAIN pages0[s]

\* the input content of page x contains the basename of no other page
NoOtherBasename(x) ==
    \A t \in PagesOf(pages0) \ {x} : ~In(Basename(t[2]), pages0[x[1]][x[2]])

\* C10 as stated: make_interlinks keeps the sections and the page names,
\* and the content of a page that contains no basename of another page.
C10_OnlyContentsChange ==
    pc \in {"make_interlinks", "write_site"} =>
        /\ SameKeys
        /\ \A x \in PagesOf(pages0) :
              NoOtherBasename(x) => sitepages[x[1]][x[2]] = pages0[x[1]][x[2]]

\* C10 amended: the same, except for the page Quattor.md when its own
\* content contains Quattor, which is rewritten to link to itself.
C10_OnlyContentsChangeButQuattor ==
    pc \in {"make_interlinks", "write_site"} =>
        /\ SameKeys
        /\ \A x \in PagesOf(pages0) :
              (/\ NoOtherBasename(x)
               /\ ~(Basename(x[2]) = str_Quattor
                    /\ In(str_Quattor, pages0[x[1]][x[2]])))
              => sitepages[x[1]][x[2]] = pages0[x[1]][x[2]]

\* C10 witness: make_interlinks has returned and changed some page, while a
\* page that refers to itself and to no other page is as it was passed in.
C10_Witness ==
    /\ pc = "write_site"
    /\ sitepages # pages0
    /\ \E x \in PagesOf(pages0) :
          /\ NoOtherBasename(x)
          /\ In(Basename(x[2]), pages0[x[1]][x[2]])
          /\ Basename(x[2]) # str_Quattor
          /\ sitepages[x[1]][x[2]] = pages0[x[1]][x[2]]

-----------------------------------------------------------------------------
(* Claim about write_site, checked under SpecWrite.                        *)

\* C6: the toc handed to write_toc has, for every section of the site
\* pages, exactly the page names of the section, each once, in
\* non-decreasing order of their lower-cased form.
C6_TocSortedIgnoringCase ==
    pc \in {"write_toc", "done"} =>
        /\ DOMAIN toc = DOMAIN sitepages
        /\ \A subdir \in DOMAIN sitepages :
              /\ {toc[subdir][k] : k \in 1..Len(toc[subdir])} = DOMAIN sitepages[subdir]
              /\ Len(toc[subdir]) = Cardinality(DOMAIN sitepages[subdir])
              /\ \A i, j \in 1..Len(toc[subdir]) :
                    i < j => ~StrLess(Lower(toc[subdir][j]), Lower(toc[subdir][i]))

\* C6 witness: a section with a.md and B.md is handed over as a.md, B.md,
\* the reverse of the order of the names as they are written.
C6_Witness ==
    /\ pc = "write_toc"
    /\ \E subdir \in DOMAIN toc : toc[subdir] = <<n_a, n_B>>

-----------------------------------------------------------------------------
(* Claim about build_documentation, checked under Spec.                    *)

\* both locations given and existing, the output location an empty
\* directory, pod2markdown on the search path, mvn on it when the external
\* build is requested
EnvironmentReady ==
    /\ env.repository_location
    /\ env.output_location
    /\ env.source_exists
    /\ env.output = "empty"
    /\ env.path_set /\ env.pod2markdown
    /\ env.compile => env.mvn

\* a page was converted, or a directory, page file or navigation file written
OutputProduced ==
    \/ DOMAIN markdownlist # {}
    \/ dirs # {}
    \/ DOMAIN files # {}
    \/ navfile # {}

\* C7: nothing is converted or written unless every precondition held and
\* the repository map is not empty; a run that exits has produced nothing,
\* and no run goes past the checks without the preconditions.
C7_NoOutputBeforePreconditions ==
    /\ OutputProduced => (EnvironmentReady /\ DOMAIN repository_map # {})
    /\ pc = "exit" => ~OutputProduced
    /\ pc \notin {"check_input", "check_commands", "exit", "raise"} => EnvironmentReady
    /\ pc \notin {"check_input", "check_commands", "build_repository_map", "exit", "raise"}
          => DOMAIN repository_map # {}

\* C7 witness: a run without the external build, on a system without mvn,
\* has written the pages and the navigation file.
C7_Witness ==
    /\ pc = "done"
    /\ ~env.compile
    /\ ~env.mvn
    /\ DOMAIN files # {}
    /\ navfile # {}

=============================================================================
